---- MODULE Spec2Model ----
(***************************************************************************)
(* Fit-Check: the App component (src/unnamed/part_000), its undo/redo      *)
(* container useHistoryState, and the panels that call its handlers.       *)
(*                                                                         *)
(* A handler runs synchronously up to its first await; every state update  *)
(* it queues is applied by React before the next event.  One action of     *)
(* this module is one such synchronous segment.  What a handler still has  *)
(* to do after an await is a record in `tasks`; the record carries the     *)
(* values the handler's closure captured when it was invoked (the history  *)
(* array and currentIndex of that render), because the continuation reads  *)
(* those and not the live state.                                           *)
(***************************************************************************)
EXTENDS Integers, Sequences, FiniteSets, TLC

\* ---------------------------------------------------------------- bounds
NumGarments == 2      \* garments of the default wardrobe that are exercised
NumAccessories == 2   \* accessories of the default wardrobe that are exercised
NumPoses == 2         \* entries of POSE_INSTRUCTIONS that are exercised
NumVariants == 1      \* distinct images the remote model may answer one request with
MaxLayers == 3        \* cap on garmentHistory.length
MaxHist == 3          \* cap on history.length
MaxHistReorder == 5   \* cap on history.length where garments are reordered
MaxTasks == 1         \* cap on pending continuations and timers
MaxRace == 2          \* the same cap where continuations race
MaxHistRace == 4      \* cap on history.length where continuations race
MaxAccRace == 1       \* accessories the user selects where continuations race
NumCustom == 1        \* uploaded garments
MaxSaved == 1         \* cap on savedOutfits.length
MaxSavedSave == 2     \* cap on savedOutfits.length where outfits are saved one after another
MaxHistSave == 4      \* cap on history.length there
MaxObjs == 5          \* cap on live OutfitLayer objects
MaxApiScore == 12     \* the remote model answers a score in -MaxApiScore..MaxApiScore
MaxScoreItems == 2    \* cap on the items of one generateStyleScore call
MaxHistReplay == 5    \* cap on history.length where removed garments are selected again

\* ------------------------------------------------------------ data model
GarmentIds == 1..NumGarments
AccessoryIds == {100 + k : k \in 1..NumAccessories}
CustomIds == {200 + k : k \in 1..NumCustom}
Poses == 0..(NumPoses - 1)
Variants == 1..NumVariants

NULL == "null"
\* styleScore when it is null; a score carries, besides the number, the items it
\* was computed from (the critique is left out)
NoScore == [score |-> 0 - 1, items |-> <<>>]

\* WardrobeItem.type of the item with this id
ItemType(id) == IF id \in AccessoryIds THEN "accessory" ELSE "garment"

defaultWardrobe ==
    [k \in 1..(NumGarments + NumAccessories) |->
        IF k <= NumGarments THEN k ELSE 100 + (k - NumGarments)]

\* An image (a data: URL) is the chain of generation calls that produced it;
\* null is the empty chain.
NoImage == <<>>
ImgOp(k, n, accs, v) == [k |-> k, n |-> n, accs |-> accs, v |-> v]
ModelImage(v) == <<ImgOp("model", 0, <<>>, v)>>
generateGarmentTryOnImage(base, item, v) == Append(base, ImgOp("garment", item, <<>>, v))
generatePoseVariation(base, pose, v) == Append(base, ImgOp("pose", pose, <<>>, v))
generateAccessoryTryOnImage(base, accs, v) == Append(base, ImgOp("acc", 0, accs, v))

initialState ==
    [modelImageUrl |-> NoImage,
     garmentHistory |-> <<>>,
     currentGarmentIndex |-> 0,
     activeAccessories |-> <<>>,
     generatedAccessoryImageUrl |-> NoImage,
     currentPoseIndex |-> 0]

\* An OutfitLayer object; FreeLayer marks an unused cell of the object heap.
FreeLayer == [item |-> -1, poseImages |-> <<>>]
Layer(item, pose, img) == [item |-> item, poseImages |-> <<[pose |-> pose, img |-> img]>>]

NoOutfit ==
    [id |-> 0, thumbnailUrl |-> NoImage, modelImageUrl |-> NoImage,
     garmentHistory |-> <<>>, activeAccessories |-> <<>>, wardrobe |-> <<>>]

Range(s) == {s[k] : k \in 1..Len(s)}
\* Array.prototype.slice(0, n) and slice(1)
Slice(s, n) == SubSeq(s, 1, IF n < Len(s) THEN n ELSE Len(s))
Rest(s) == SubSeq(s, 2, Len(s))
Min(S) == CHOOSE x \in S : \A y \in S : x <= y
Max(S) == CHOOSE x \in S : \A y \in S : x >= y

VARIABLES
    history,            \* useHistoryState: history
    currentIndex,       \* useHistoryState: currentIndex (0-based, as in the source)
    heap,               \* the OutfitLayer objects, by reference
    isLoading, loadingMessage, error, wardrobe, savedOutfits,
    styleScore, isScoringStyle, styleSuggestions, isSuggesting,
    tasks               \* pending continuations: awaited promises and timers

vars == <<history, currentIndex, heap, isLoading, loadingMessage, error, wardrobe,
          savedOutfits, styleScore, isScoringStyle, styleSuggestions, isSuggesting, tasks>>

\* -------------------------------------------------------- useHistoryState
\* App destructures state = history[currentIndex]; an undefined state throws in
\* render and React unmounts the tree.
mounted == currentIndex >= 0 /\ currentIndex < Len(history)
state == history[currentIndex + 1]
canUndo == currentIndex > 0
canRedo == currentIndex < Len(history) - 1

\* JSON.stringify of an AppState: layers are serialised by content, pose keys
\* in insertion order.
JsonState(s, h) ==
    [s EXCEPT !.garmentHistory = [k \in 1..Len(s.garmentHistory) |-> h[s.garmentHistory[k]]]]

NoUpdate == [upd |-> FALSE, history |-> <<>>, currentIndex |-> 0]

\* a setState that slices one entry short and so replaces the current entry
setStateReplacesCurrent(cH, cI, newState, h) ==
    IF JsonState(newState, h) = JsonState(cH[cI + 1], h)
    THEN NoUpdate
    ELSE [upd |-> TRUE, history |-> Append(Slice(cH, cI), newState), currentIndex |-> cI]

\* a setState without the comparison that avoids pushing identical states
setStateAlwaysPushes(cH, cI, newState, h) ==
    [upd |-> TRUE,
     history |-> Append(Slice(cH, cI + 1), newState),
     currentIndex |-> cI + 1]

\* setState(value) of the closure created in the render that saw (cH, cI):
\* the update it queues, or none when the new state stringifies like the old.
setState(cH, cI, newState, h) ==
    IF JsonState(newState, h) = JsonState(cH[cI + 1], h)
    THEN NoUpdate
    ELSE [upd |-> TRUE,
          history |-> Append(Slice(cH, cI + 1), newState),
          currentIndex |-> cI + 1]

\* a reset that pushes the new state instead of replacing the history
resetPushes(newState) ==
    [upd |-> TRUE, history |-> Append(history, newState), currentIndex |-> Len(history)]

\* reset(newState)
reset(newState) == [upd |-> TRUE, history |-> <<newState>>, currentIndex |-> 0]

\* undo without its guard
undoIndexUnguarded(i) == i - 1

\* setCurrentIndex updater of undo, under undo's guard
undoIndex(i) == IF i > 0 THEN i - 1 ELSE i

\* setCurrentIndex updater of redo, under redo's guard
redoIndex(i, len) == IF i < len - 1 THEN i - 1 ELSE i

\* ------------------------------------------------------------ the heap
FreeIds(h) == {i \in 1..MaxObjs : h[i] = FreeLayer}

\* the n lowest free cells, in order
RECURSIVE AllocN(_, _)
AllocN(free, n) ==
    IF n = 0 THEN <<>>
    ELSE <<Min(free)>> \o AllocN(free \ {Min(free)}, n - 1)

\* The references held by the history entries, then by the closures of the
\* continuations, each once, in order of first occurrence.
RECURSIVE RefsOfHistory(_)
RefsOfHistory(hist) ==
    IF hist = <<>> THEN <<>> ELSE Head(hist).garmentHistory \o RefsOfHistory(Tail(hist))

RECURSIVE RefsOfTasks(_)
RefsOfTasks(tsks) ==
    IF tsks = <<>> THEN <<>> ELSE RefsOfHistory(Head(tsks).cHist) \o RefsOfTasks(Tail(tsks))

RECURSIVE Once(_, _)
Once(s, seen) ==
    IF s = <<>> THEN <<>>
    ELSE IF Head(s) \in seen THEN Once(Tail(s), seen)
    ELSE <<Head(s)>> \o Once(Tail(s), seen \cup {Head(s)})

Live(hist, tsks) == Once(RefsOfHistory(hist) \o RefsOfTasks(tsks), {})

\* An object reference is an address and nothing depends on its value: after
\* every segment the live objects are renumbered in the order of Live and the
\* objects nothing refers to are collected.
Moved(live, lid) == CHOOSE i \in 1..Len(live) : live[i] = lid
MoveState(live, s) ==
    [s EXCEPT !.garmentHistory = [k \in 1..Len(s.garmentHistory) |-> Moved(live, s.garmentHistory[k])]]
MoveHistory(live, hist) == [k \in 1..Len(hist) |-> MoveState(live, hist[k])]
MoveTasks(live, tsks) ==
    [k \in 1..Len(tsks) |-> [tsks[k] EXCEPT !.cHist = MoveHistory(live, tsks[k].cHist)]]
MoveHeap(live, h) ==
    [i \in 1..MaxObjs |-> IF i <= Len(live) THEN h[live[i]] ELSE FreeLayer]

\* ------------------------------------------------------- derived values
activeGarmentLayers(s) == Slice(s.garmentHistory, s.currentGarmentIndex + 1)
activeGarmentIds(s, h) ==
    [k \in 1..Len(Rest(activeGarmentLayers(s))) |-> h[Rest(activeGarmentLayers(s))[k]].item]
activeItemIds(s, h) == activeGarmentIds(s, h) \o s.activeAccessories

HasLayer(s, k) == k >= 0 /\ k < Len(s.garmentHistory)

\* poseImages[POSE_INSTRUCTIONS[p]], or null
PoseImage(layer, p) ==
    IF \E k \in 1..Len(layer.poseImages) : layer.poseImages[k].pose = p
    THEN layer.poseImages[CHOOSE k \in 1..Len(layer.poseImages) : layer.poseImages[k].pose = p].img
    ELSE NoImage

\* Object.values(poseImages)[0], or null
FirstPoseImage(layer) ==
    IF Len(layer.poseImages) > 0 THEN layer.poseImages[1].img ELSE NoImage

\* poseImages[POSE_INSTRUCTIONS[p]] = img on the object itself
SetPoseImage(layer, p, img) ==
    IF \E k \in 1..Len(layer.poseImages) : layer.poseImages[k].pose = p
    THEN [layer EXCEPT !.poseImages =
            [k \in 1..Len(layer.poseImages) |->
                IF layer.poseImages[k].pose = p
                THEN [pose |-> p, img |-> img] ELSE layer.poseImages[k]]]
    ELSE [layer EXCEPT !.poseImages = Append(@, [pose |-> p, img |-> img])]

displayImageUrl(s, h) ==
    IF ~HasLayer(s, s.currentGarmentIndex) THEN s.modelImageUrl
    ELSE LET layer == h[s.garmentHistory[s.currentGarmentIndex + 1]]
             baseGarmentImageUrl ==
                 IF PoseImage(layer, s.currentPoseIndex) # NoImage
                 THEN PoseImage(layer, s.currentPoseIndex)
                 ELSE FirstPoseImage(layer)
         IN IF s.generatedAccessoryImageUrl # NoImage
            THEN s.generatedAccessoryImageUrl
            ELSE baseGarmentImageUrl

\* the main screen (Canvas, OutfitStack, panels) is rendered, not StartScreen
mainShown == mounted /\ state.modelImageUrl # NoImage

\* ---------------------------------------------------------------- tasks
\* Of the history array its closure captured, a continuation can read only
\* history[currentIndex] and history.slice(0, currentIndex + 1).
Task(kind, cH, cI) ==
    [kind |-> kind, cHist |-> Slice(cH, cI + 1), cIdx |-> cI,
     item |-> 0, accs |-> <<>>, base |-> NoImage, pose |-> 0,
     order |-> <<>>, done |-> <<>>, outfit |-> NoOutfit,
     cWardrobe |-> <<>>, items |-> <<>>, origin |-> "none"]

\* The continuation of an updateAccessoryLayer call made by handleLoadOutfit or
\* awaited by handleReorderGarments runs in the scope of that call: its outfit,
\* its reorderedItems.
InScope(tsks, outfit, order) ==
    [j \in 1..Len(tsks) |-> [tsks[j] EXCEPT !.outfit = outfit, !.order = order]]

\* The continuation of an updateAccessoryLayer call made by handlePoseSelect(newIndex)
\* belongs to that call.
InPose(tsks, newIndex) == [j \in 1..Len(tsks) |-> [tsks[j] EXCEPT !.pose = newIndex]]

Without(tsks, k) == SubSeq(tsks, 1, k - 1) \o SubSeq(tsks, k + 1, Len(tsks))

\* ---------------------------------------------------------------- Init
Init ==
    /\ history = <<initialState>>
    /\ currentIndex = 0
    /\ heap = [i \in 1..MaxObjs |-> FreeLayer]
    /\ isLoading = FALSE
    /\ loadingMessage = ""
    /\ error = NULL
    /\ wardrobe = defaultWardrobe
    /\ savedOutfits = <<>>
    /\ styleScore = NoScore
    /\ isScoringStyle = FALSE
    /\ styleSuggestions = <<>>
    /\ isSuggesting = FALSE
    /\ tasks = <<>>

\* The effect with dependencies [activeGarmentLayers, activeAccessories]:
\* it runs after a render in which the active outfit differs from the one of
\* the render before (compared here by the layers referred to and the list of
\* accessories).  React compares the two arrays by identity, so the effect also
\* runs when an array was rebuilt with equal content; a score that survives
\* here only for that reason still belongs to an outfit with the same items.
\* The newHistory array of handlePoseSelect is accounted for in PoseResolvedAt.
OutfitChanged(nh, ni) ==
    /\ ni >= 0 /\ ni < Len(nh)
    /\ \/ activeGarmentLayers(nh[ni + 1]) # activeGarmentLayers(state)
       \/ nh[ni + 1].activeAccessories # state.activeAccessories

\* The render after a synchronous segment: the queued history update u, the heap
\* nh and the continuations nt take effect, then the effects run.
Render(u, nh, nt, score, sugg) ==
    LET h2 == IF u.upd THEN u.history ELSE history
        i2 == IF u.upd THEN u.currentIndex ELSE currentIndex
        live == Live(h2, nt)
    IN /\ history' = MoveHistory(live, h2)
       /\ currentIndex' = i2
       /\ heap' = MoveHeap(live, nh)
       /\ tasks' = MoveTasks(live, nt)
       /\ styleScore' = IF OutfitChanged(h2, i2) THEN NoScore ELSE score
       /\ styleSuggestions' = IF OutfitChanged(h2, i2) THEN <<>> ELSE sugg

\* ------------------------------------------------------------ handlers
handleModelFinalized ==
    /\ mounted
    /\ state.modelImageUrl = NoImage
    /\ \E v \in Variants :
        LET url == ModelImage(v)
            lid == Min(FreeIds(heap))
        IN /\ FreeIds(heap) # {}
           /\ Render(reset([initialState EXCEPT !.modelImageUrl = url,
                                                !.garmentHistory = <<lid>>]),
                     [heap EXCEPT ![lid] = Layer(0, 0, url)],
                     tasks, styleScore, styleSuggestions)
    /\ UNCHANGED <<isLoading, loadingMessage, error, wardrobe, savedOutfits,
                   isScoringStyle, isSuggesting>>

handleStartOver ==
    /\ mainShown
    /\ Render(reset(initialState), heap, tasks, NoScore, styleSuggestions)
    /\ isLoading' = FALSE
    /\ loadingMessage' = ""
    /\ error' = NULL
    /\ wardrobe' = defaultWardrobe
    /\ UNCHANGED <<savedOutfits, isScoringStyle, isSuggesting>>

undo ==
    /\ mainShown
    /\ Render([upd |-> TRUE, history |-> history, currentIndex |-> undoIndex(currentIndex)],
              heap, tasks, styleScore, styleSuggestions)
    /\ UNCHANGED <<isLoading, loadingMessage, error, wardrobe, savedOutfits,
                   isScoringStyle, isSuggesting>>

redo ==
    /\ mainShown
    /\ Render([upd |-> TRUE, history |-> history,
               currentIndex |-> redoIndex(currentIndex, Len(history))],
              heap, tasks, styleScore, styleSuggestions)
    /\ UNCHANGED <<isLoading, loadingMessage, error, wardrobe, savedOutfits,
                   isScoringStyle, isSuggesting>>

\* What one synchronous segment queues besides what it does to the heap: the
\* history update, the plain useState values and the continuations it leaves.
Keep ==
    [u |-> NoUpdate, isLoading |-> isLoading, loadingMessage |-> loadingMessage,
     error |-> error, newTasks |-> <<>>]

Apply(eff, nh, rest, score, sugg) ==
    /\ Render(eff.u, nh, rest \o eff.newTasks, score, sugg)
    /\ isLoading' = eff.isLoading
    /\ loadingMessage' = eff.loadingMessage
    /\ error' = eff.error

\* updateAccessoryLayer(accessories, overrideBaseImageUrl) of the closure (cH, cI),
\* up to its await
updateAccessoryLayer(cH, cI, accessories, overrideBaseImageUrl, h, origin) ==
    LET cs == cH[cI + 1]
        baseImageUrl ==
            IF overrideBaseImageUrl # NoImage THEN overrideBaseImageUrl
            ELSE IF HasLayer(cs, cs.currentGarmentIndex)
                 THEN FirstPoseImage(h[cs.garmentHistory[cs.currentGarmentIndex + 1]])
                 ELSE cs.modelImageUrl
    IN IF baseImageUrl = NoImage THEN Keep
       ELSE IF Len(accessories) = 0
       THEN [Keep EXCEPT !.u = setState(cH, cI,
                [cs EXCEPT !.generatedAccessoryImageUrl = NoImage,
                           !.activeAccessories = <<>>], h)]
       ELSE [Keep EXCEPT !.isLoading = TRUE,
                         !.loadingMessage = "Styling accessories...",
                         !.error = NULL,
                         !.newTasks = <<[Task("accessory", cH, cI) EXCEPT
                                           !.accs = accessories,
                                           !.base = baseImageUrl,
                                           !.origin = origin]>>]

\* a toggle that always appends
newAccessoriesAppends(activeAccessories, itemInfo) == Append(activeAccessories, itemInfo)

\* newAccessories of handleItemSelect's accessory branch
newAccessories(activeAccessories, itemInfo) ==
    LET isAlreadyActive == itemInfo \in Range(activeAccessories)
    IN IF isAlreadyActive
       THEN SelectSeq(activeAccessories, LAMBDA a : a # itemInfo)
       ELSE Append(activeAccessories, itemInfo)

\* a handleItemSelect that asks for a new try-on image even when the next layer
\* holds the garment
handleItemSelectNoReplay(cH, cI, itemInfo, base, h) ==
    LET cs == cH[cI + 1]
    IN IF base = NoImage THEN Keep
       ELSE IF ItemType(itemInfo) = "garment"
       THEN [Keep EXCEPT !.error = NULL,
                         !.isLoading = TRUE,
                         !.loadingMessage = "Adding...",
                         !.newTasks = <<[Task("garment", cH, cI) EXCEPT
                                           !.item = itemInfo, !.base = base]>>]
       ELSE updateAccessoryLayer(cH, cI, newAccessories(cs.activeAccessories, itemInfo),
                                 NoImage, h, "select")

\* handleItemSelect(itemFile, itemInfo) of the closure (cH, cI), up to its await;
\* base is the closure's displayImageUrl (a data: URL) or else its modelImageUrl,
\* and the closure's isLoading is false (every caller is disabled while loading).
handleItemSelect(cH, cI, itemInfo, base, h) ==
    LET cs == cH[cI + 1]
        next == cs.currentGarmentIndex + 1
    IN IF base = NoImage THEN Keep
       ELSE IF ItemType(itemInfo) = "garment"
       THEN IF HasLayer(cs, next) /\ h[cs.garmentHistory[next + 1]].item = itemInfo
            THEN [Keep EXCEPT !.u = setState(cH, cI,
                     [cs EXCEPT !.currentGarmentIndex = cs.currentGarmentIndex + 1,
                                !.currentPoseIndex = 0,
                                !.activeAccessories = <<>>,
                                !.generatedAccessoryImageUrl = NoImage], h)]
            ELSE [Keep EXCEPT !.error = NULL,
                              !.isLoading = TRUE,
                              !.loadingMessage = "Adding...",
                              !.newTasks = <<[Task("garment", cH, cI) EXCEPT
                                                !.item = itemInfo, !.base = base]>>]
       ELSE updateAccessoryLayer(cH, cI, newAccessories(cs.activeAccessories, itemInfo),
                                 NoImage, h, "select")

\* the base image handleItemSelect of the current render would use
baseGarmentImageUrl ==
    IF displayImageUrl(state, heap) # NoImage
    THEN displayImageUrl(state, heap) ELSE state.modelImageUrl

\* WardrobePanel.handleItemClick(item), up to await urlToFile
handleItemClick ==
    /\ mainShown
    /\ ~isLoading
    /\ \E k \in 1..Len(wardrobe) :
        LET item == wardrobe[k] IN
        /\ ~(ItemType(item) = "garment" /\ item \in Range(activeItemIds(state, heap)))
        /\ Apply([Keep EXCEPT !.newTasks =
                    <<[Task("file", history, currentIndex) EXCEPT
                         !.item = item, !.base = baseGarmentImageUrl,
                         !.origin = "wardrobe"]>>],
                 heap, tasks, styleScore, styleSuggestions)
    /\ UNCHANGED <<wardrobe, savedOutfits, isScoringStyle, isSuggesting>>

\* urlToFile resolved: onItemSelect(file, item) of the render of the click
FileResolvedAt(k) ==
    LET t == tasks[k] IN
    /\ mounted
    /\ t.kind = "file"
    /\ Apply(handleItemSelect(t.cHist, t.cIdx, t.item, t.base, heap),
             heap, Without(tasks, k), styleScore, styleSuggestions)
    /\ UNCHANGED <<wardrobe, savedOutfits, isScoringStyle, isSuggesting>>

FileResolved == \E k \in 1..Len(tasks) : FileResolvedAt(k)

\* urlToFile rejected: the panel shows its own error, the App is not called
FileRejectedAt(k) ==
    /\ mounted
    /\ tasks[k].kind = "file"
    /\ Apply(Keep, heap, Without(tasks, k), styleScore, styleSuggestions)
    /\ UNCHANGED <<wardrobe, savedOutfits, isScoringStyle, isSuggesting>>

FileRejected == \E k \in 1..Len(tasks) : FileRejectedAt(k)

\* handleItemSelect after await generateGarmentTryOnImage resolved
GarmentResolvedAt(k) ==
    \E v \in Variants :
        LET t == tasks[k]
            cs == t.cHist[t.cIdx + 1]
            newImageUrl == generateGarmentTryOnImage(t.base, t.item, v)
            lid == Min(FreeIds(heap))
            nh == [heap EXCEPT ![lid] = Layer(t.item, cs.currentPoseIndex, newImageUrl)]
            newHistory == Slice(cs.garmentHistory, cs.currentGarmentIndex + 1)
            newState == [cs EXCEPT !.garmentHistory = Append(newHistory, lid),
                                   !.currentGarmentIndex = cs.currentGarmentIndex + 1,
                                   !.activeAccessories = <<>>,
                                   !.generatedAccessoryImageUrl = NoImage]
        IN /\ mounted
           /\ t.kind = "garment"
           /\ FreeIds(heap) # {}
           /\ Len(newState.garmentHistory) <= MaxLayers
           /\ Apply([Keep EXCEPT !.u = setState(t.cHist, t.cIdx, newState, nh),
                                 !.isLoading = FALSE, !.loadingMessage = ""],
                    nh, Without(tasks, k), styleScore, styleSuggestions)
           /\ wardrobe' = IF t.item \in Range(wardrobe) THEN wardrobe
                          ELSE Append(wardrobe, t.item)
           /\ UNCHANGED <<savedOutfits, isScoringStyle, isSuggesting>>

GarmentResolved == \E k \in 1..Len(tasks) : GarmentResolvedAt(k)

\* handleItemSelect after await generateGarmentTryOnImage rejected
GarmentRejectedAt(k) ==
    /\ mounted
    /\ tasks[k].kind = "garment"
    /\ Apply([Keep EXCEPT !.error = "Failed to apply item",
                          !.isLoading = FALSE, !.loadingMessage = ""],
             heap, Without(tasks, k), styleScore, styleSuggestions)
    /\ UNCHANGED <<wardrobe, savedOutfits, isScoringStyle, isSuggesting>>

GarmentRejected == \E k \in 1..Len(tasks) : GarmentRejectedAt(k)

\* updateAccessoryLayer after its awaits resolved; when handlePoseSelect or
\* handleReorderGarments awaited it, their finally blocks follow at once and
\* repeat setIsLoading(false), setLoadingMessage('').
AccessoryResolvedAt(k) ==
    \E v \in Variants :
        LET t == tasks[k]
            cs == t.cHist[t.cIdx + 1]
            newImageUrl == generateAccessoryTryOnImage(t.base, t.accs, v)
        IN /\ mounted
           /\ t.kind = "accessory"
           /\ Apply([Keep EXCEPT !.u = setState(t.cHist, t.cIdx,
                        [cs EXCEPT !.generatedAccessoryImageUrl = newImageUrl,
                                   !.activeAccessories = t.accs], heap),
                                 !.isLoading = FALSE, !.loadingMessage = ""],
                    heap, Without(tasks, k), styleScore, styleSuggestions)
           /\ UNCHANGED <<wardrobe, savedOutfits, isScoringStyle, isSuggesting>>

AccessoryResolved == \E k \in 1..Len(tasks) : AccessoryResolvedAt(k)

\* a catch block without the finally block that ends the loading overlay
AccessoryRejectedAtNoFinally(k) ==
    /\ mounted
    /\ tasks[k].kind = "accessory"
    /\ Apply([Keep EXCEPT !.error = "Failed to apply accessories"],
             heap, Without(tasks, k), styleScore, styleSuggestions)
    /\ UNCHANGED <<wardrobe, savedOutfits, isScoringStyle, isSuggesting>>

\* updateAccessoryLayer after an await rejected
AccessoryRejectedAt(k) ==
    /\ mounted
    /\ tasks[k].kind = "accessory"
    /\ Apply([Keep EXCEPT !.error = "Failed to apply accessories",
                          !.isLoading = FALSE, !.loadingMessage = ""],
             heap, Without(tasks, k), styleScore, styleSuggestions)
    /\ UNCHANGED <<wardrobe, savedOutfits, isScoringStyle, isSuggesting>>

AccessoryRejected == \E k \in 1..Len(tasks) : AccessoryRejectedAt(k)

\* a handlePoseSelect that does not look for a stored pose image
handlePoseSelectNoCache ==
    /\ mainShown
    /\ ~isLoading
    /\ Len(state.garmentHistory) # 0
    /\ \E newIndex \in Poses :
        LET currentLayer == heap[state.garmentHistory[state.currentGarmentIndex + 1]]
            baseImageForPoseChange == FirstPoseImage(currentLayer)
        IN /\ newIndex # state.currentPoseIndex
           /\ baseImageForPoseChange # NoImage
           /\ Apply([Keep EXCEPT !.error = NULL,
                                 !.isLoading = TRUE,
                                 !.loadingMessage = "Changing pose...",
                                 !.newTasks = <<[Task("pose", history, currentIndex)
                                                   EXCEPT !.pose = newIndex,
                                                          !.base = baseImageForPoseChange]>>],
                    heap, tasks, styleScore, styleSuggestions)
    /\ UNCHANGED <<wardrobe, savedOutfits, isScoringStyle, isSuggesting>>

\* handlePoseSelect(newIndex), up to its await
handlePoseSelect ==
    /\ mainShown
    /\ ~isLoading
    /\ Len(state.garmentHistory) # 0
    /\ \E newIndex \in Poses :
        LET currentLayer == heap[state.garmentHistory[state.currentGarmentIndex + 1]]
            cached == PoseImage(currentLayer, newIndex)
            baseImageForPoseChange == FirstPoseImage(currentLayer)
            u == setState(history, currentIndex,
                          [state EXCEPT !.currentPoseIndex = newIndex], heap)
        IN /\ newIndex # state.currentPoseIndex
           /\ IF cached # NoImage
              THEN IF Len(state.activeAccessories) > 0
                   THEN Apply([updateAccessoryLayer(history, currentIndex,
                                   state.activeAccessories, cached, heap, "pose")
                                 EXCEPT !.u = u, !.newTasks = InPose(@, newIndex)],
                              heap, tasks, styleScore, styleSuggestions)
                   ELSE Apply([Keep EXCEPT !.u = u], heap, tasks, styleScore, styleSuggestions)
              ELSE /\ baseImageForPoseChange # NoImage
                   /\ Apply([Keep EXCEPT !.error = NULL,
                                         !.isLoading = TRUE,
                                         !.loadingMessage = "Changing pose...",
                                         !.newTasks = <<[Task("pose", history, currentIndex)
                                                           EXCEPT !.pose = newIndex,
                                                                  !.base = baseImageForPoseChange]>>],
                            heap, tasks, styleScore, styleSuggestions)
    /\ UNCHANGED <<wardrobe, savedOutfits, isScoringStyle, isSuggesting>>

\* handlePoseSelect after await generatePoseVariation resolved: the layer object of
\* the closure is written in place, then setState, then updateAccessoryLayer
PoseResolvedAt(k) ==
    \E v \in Variants :
        LET t == tasks[k]
            cs == t.cHist[t.cIdx + 1]
            newImageUrl == generatePoseVariation(t.base, t.pose, v)
            lid == cs.garmentHistory[cs.currentGarmentIndex + 1]
            nh == [heap EXCEPT ![lid] = SetPoseImage(heap[lid], t.pose, newImageUrl)]
            u == setState(t.cHist, t.cIdx, [cs EXCEPT !.currentPoseIndex = t.pose], nh)
        IN /\ mounted
           /\ t.kind = "pose"
           /\ IF Len(cs.activeAccessories) > 0
              THEN Apply([updateAccessoryLayer(t.cHist, t.cIdx, cs.activeAccessories,
                              newImageUrl, nh, "pose")
                            EXCEPT !.u = u, !.newTasks = InPose(@, t.pose)],
                         nh, Without(tasks, k), NoScore, <<>>)
              ELSE Apply([Keep EXCEPT !.u = u, !.isLoading = FALSE, !.loadingMessage = ""],
                         nh, Without(tasks, k), NoScore, <<>>)
           /\ UNCHANGED <<wardrobe, savedOutfits, isScoringStyle, isSuggesting>>

PoseResolved == \E k \in 1..Len(tasks) : PoseResolvedAt(k)

\* a catch block that "reverts" by stepping the history back
PoseRejectedAtReverting(k) ==
    /\ mounted
    /\ tasks[k].kind = "pose"
    /\ Apply([Keep EXCEPT !.u = [upd |-> TRUE, history |-> history,
                                 currentIndex |-> undoIndex(currentIndex)],
                          !.error = "Failed to change pose",
                          !.isLoading = FALSE, !.loadingMessage = ""],
             heap, Without(tasks, k), styleScore, styleSuggestions)
    /\ UNCHANGED <<wardrobe, savedOutfits, isScoringStyle, isSuggesting>>

\* handlePoseSelect after await generatePoseVariation rejected
PoseRejectedAt(k) ==
    /\ mounted
    /\ tasks[k].kind = "pose"
    /\ Apply([Keep EXCEPT !.error = "Failed to change pose",
                          !.isLoading = FALSE, !.loadingMessage = ""],
             heap, Without(tasks, k), styleScore, styleSuggestions)
    /\ UNCHANGED <<wardrobe, savedOutfits, isScoringStyle, isSuggesting>>

PoseRejected == \E k \in 1..Len(tasks) : PoseRejectedAt(k)

\* a handleRemoveLastGarment without the test of currentGarmentIndex
handleRemoveLastGarmentUnguarded ==
    /\ mainShown
    /\ ~isLoading
    /\ Apply([Keep EXCEPT !.u = setState(history, currentIndex,
                 [state EXCEPT !.currentGarmentIndex = state.currentGarmentIndex - 1,
                               !.currentPoseIndex = 0,
                               !.activeAccessories = <<>>,
                               !.generatedAccessoryImageUrl = NoImage], heap)],
             heap, tasks, styleScore, styleSuggestions)
    /\ UNCHANGED <<wardrobe, savedOutfits, isScoringStyle, isSuggesting>>

\* OutfitStack shows the remove button on the last garment, disabled while loading
handleRemoveLastGarment ==
    /\ mainShown
    /\ ~isLoading
    /\ state.currentGarmentIndex > 0
    /\ Apply([Keep EXCEPT !.u = setState(history, currentIndex,
                 [state EXCEPT !.currentGarmentIndex = state.currentGarmentIndex - 1,
                               !.currentPoseIndex = 0,
                               !.activeAccessories = <<>>,
                               !.generatedAccessoryImageUrl = NoImage], heap)],
             heap, tasks, styleScore, styleSuggestions)
    /\ UNCHANGED <<wardrobe, savedOutfits, isScoringStyle, isSuggesting>>

\* OutfitStack: the accessory's remove button, disabled while loading
handleRemoveAccessory ==
    /\ mainShown
    /\ ~isLoading
    /\ \E k \in 1..Len(state.activeAccessories) :
        LET accessoryId == state.activeAccessories[k]
            remaining == SelectSeq(state.activeAccessories, LAMBDA a : a # accessoryId)
        IN Apply(updateAccessoryLayer(history, currentIndex, remaining, NoImage,
                                      heap, "remove"),
                 heap, tasks, styleScore, styleSuggestions)
    /\ UNCHANGED <<wardrobe, savedOutfits, isScoringStyle, isSuggesting>>

\* the orders Reorder.Group can report: every arrangement of the list but its own
Reorderings(s) ==
    {[k \in 1..Len(s) |-> s[p[k]]] :
        p \in {q \in [1..Len(s) -> 1..Len(s)] : \A a, b \in 1..Len(s) : q[a] = q[b] => a = b}}
    \ {s}

handleReorderAccessories ==
    /\ mainShown
    /\ ~isLoading
    /\ \E reorderedItems \in Reorderings(state.activeAccessories) :
        Apply(updateAccessoryLayer(history, currentIndex, reorderedItems, NoImage,
                                   heap, "accessories"),
              heap, tasks, styleScore, styleSuggestions)
    /\ UNCHANGED <<wardrobe, savedOutfits, isScoringStyle, isSuggesting>>

\* handleSaveOutfit; the Save button is enabled by canSave
canSave ==
    ~isLoading /\ (state.currentGarmentIndex > 0 \/ Len(state.activeAccessories) > 0)

\* Date.now() in `outfit-${Date.now()}`: an id no saved outfit has
NewOutfitId == Min({n \in 1..(Len(savedOutfits) + 1) :
                      \A k \in 1..Len(savedOutfits) : savedOutfits[k].id # n})

\* a handleSaveOutfit that stores garmentHistory whole, the layers above
\* currentGarmentIndex included
handleSaveOutfitAllLayers ==
    /\ mainShown
    /\ canSave
    /\ IF \/ state.modelImageUrl = NoImage
          \/ displayImageUrl(state, heap) = NoImage
          \/ (state.currentGarmentIndex = 0 /\ Len(state.activeAccessories) = 0)
       THEN /\ Apply([Keep EXCEPT !.error = "Add at least one item to save an outfit.",
                                  !.newTasks = <<Task("errorTimer", history, currentIndex)>>],
                     heap, tasks, styleScore, styleSuggestions)
            /\ UNCHANGED savedOutfits
       ELSE LET layers == state.garmentHistory
                historyToSave ==
                    [k \in 1..Len(layers) |->
                        [item |-> heap[layers[k]].item,
                         imageUrl |-> FirstPoseImage(heap[layers[k]])]]
                newSavedOutfit ==
                    [id |-> NewOutfitId,
                     thumbnailUrl |-> displayImageUrl(state, heap),
                     modelImageUrl |-> state.modelImageUrl,
                     garmentHistory |-> historyToSave,
                     activeAccessories |-> state.activeAccessories,
                     wardrobe |-> wardrobe]
            IN /\ savedOutfits' = <<newSavedOutfit>> \o savedOutfits
               /\ Apply(Keep, heap, tasks, styleScore, styleSuggestions)
    /\ UNCHANGED <<wardrobe, isScoringStyle, isSuggesting>>

handleSaveOutfit ==
    /\ mainShown
    /\ canSave
    /\ IF \/ state.modelImageUrl = NoImage
          \/ displayImageUrl(state, heap) = NoImage
          \/ (state.currentGarmentIndex = 0 /\ Len(state.activeAccessories) = 0)
       THEN /\ Apply([Keep EXCEPT !.error = "Add at least one item to save an outfit.",
                                  !.newTasks = <<Task("errorTimer", history, currentIndex)>>],
                     heap, tasks, styleScore, styleSuggestions)
            /\ UNCHANGED savedOutfits
       ELSE LET layers == activeGarmentLayers(state)
                historyToSave ==
                    [k \in 1..Len(layers) |->
                        [item |-> heap[layers[k]].item,
                         imageUrl |-> FirstPoseImage(heap[layers[k]])]]
                newSavedOutfit ==
                    [id |-> NewOutfitId,
                     thumbnailUrl |-> displayImageUrl(state, heap),
                     modelImageUrl |-> state.modelImageUrl,
                     garmentHistory |-> historyToSave,
                     activeAccessories |-> state.activeAccessories,
                     wardrobe |-> wardrobe]
            IN /\ savedOutfits' = <<newSavedOutfit>> \o savedOutfits
               /\ Apply(Keep, heap, tasks, styleScore, styleSuggestions)
    /\ UNCHANGED <<wardrobe, isScoringStyle, isSuggesting>>

\* setTimeout(() => setError(null), 4000)
ErrorTimerFiredAt(k) ==
    /\ mounted
    /\ tasks[k].kind = "errorTimer"
    /\ Apply([Keep EXCEPT !.error = NULL], heap, Without(tasks, k),
             styleScore, styleSuggestions)
    /\ UNCHANGED <<wardrobe, savedOutfits, isScoringStyle, isSuggesting>>

ErrorTimerFired == \E k \in 1..Len(tasks) : ErrorTimerFiredAt(k)

\* handleLoadOutfit(outfitId), up to setTimeout
handleLoadOutfit ==
    /\ mainShown
    /\ ~isLoading
    /\ \E k \in 1..Len(savedOutfits) :
        LET outfitToLoad == savedOutfits[k] IN
        /\ \A j \in 1..(k - 1) : savedOutfits[j].id # outfitToLoad.id
        /\ Apply([Keep EXCEPT !.error = NULL,
                              !.isLoading = TRUE,
                              !.loadingMessage = "Loading outfit...",
                              !.newTasks = <<[Task("loadTimer", history, currentIndex)
                                                EXCEPT !.outfit = outfitToLoad]>>],
                 heap, tasks, styleScore, styleSuggestions)
    /\ UNCHANGED <<wardrobe, savedOutfits, isScoringStyle, isSuggesting>>

\* the callback of handleLoadOutfit's setTimeout(..., 200): reset, setWardrobe,
\* then updateAccessoryLayer or setState of the closure of the click, then
\* setIsLoading(false)
LoadTimerFiredAt(k) ==
    LET t == tasks[k]
        cs == t.cHist[t.cIdx + 1]
        outfitToLoad == t.outfit
        n == Len(outfitToLoad.garmentHistory)
        lids == AllocN(FreeIds(heap), n)
        nh == [i \in 1..MaxObjs |->
                 IF \E j \in 1..n : lids[j] = i
                 THEN LET j == CHOOSE j \in 1..n : lids[j] = i
                      IN Layer(outfitToLoad.garmentHistory[j].item, 0,
                               outfitToLoad.garmentHistory[j].imageUrl)
                 ELSE heap[i]]
        loaded == [modelImageUrl |-> outfitToLoad.modelImageUrl,
                   garmentHistory |-> lids,
                   currentGarmentIndex |-> n - 1,
                   currentPoseIndex |-> 0,
                   activeAccessories |-> outfitToLoad.activeAccessories,
                   generatedAccessoryImageUrl |-> NoImage]
        baseImageUrl == FirstPoseImage(nh[lids[n]])
        later == setState(t.cHist, t.cIdx,
                          [cs EXCEPT !.generatedAccessoryImageUrl = NoImage], nh)
    IN /\ mounted
       /\ t.kind = "loadTimer"
       /\ Cardinality(FreeIds(heap)) >= n
       /\ IF Len(outfitToLoad.activeAccessories) > 0
          THEN Apply([updateAccessoryLayer(t.cHist, t.cIdx,
                          outfitToLoad.activeAccessories, baseImageUrl, nh, "load")
                        EXCEPT !.u = reset(loaded),
                               !.newTasks = InScope(@, outfitToLoad, <<>>),
                               !.isLoading = FALSE, !.loadingMessage = ""],
                     nh, Without(tasks, k), styleScore, styleSuggestions)
          ELSE Apply([Keep EXCEPT !.u = IF later.upd THEN later ELSE reset(loaded),
                                  !.isLoading = FALSE, !.loadingMessage = ""],
                     nh, Without(tasks, k), styleScore, styleSuggestions)
       /\ wardrobe' = outfitToLoad.wardrobe
       /\ UNCHANGED <<savedOutfits, isScoringStyle, isSuggesting>>

LoadTimerFired == \E k \in 1..Len(tasks) : LoadTimerFiredAt(k)

handleDeleteOutfit ==
    /\ mainShown
    /\ ~isLoading
    /\ \E k \in 1..Len(savedOutfits) :
        savedOutfits' = SelectSeq(savedOutfits, LAMBDA o : o.id # savedOutfits[k].id)
    /\ Apply(Keep, heap, tasks, styleScore, styleSuggestions)
    /\ UNCHANGED <<wardrobe, isScoringStyle, isSuggesting>>

\* item ids of a list of layers, null for the base layer
LayerItems(layers, h) == [k \in 1..Len(layers) |-> h[layers[k]].item]

\* handleReorderGarments(reorderedItems), up to the first await of its loop;
\* Reorder.Group reports an arrangement of the garments OutfitStack was given,
\* the active layers above the base
handleReorderGarments ==
    /\ mainShown
    /\ \E reorderedItems \in Reorderings(LayerItems(Rest(activeGarmentLayers(state)), heap)) :
        /\ <<0>> \o reorderedItems # LayerItems(state.garmentHistory, heap)
        /\ Apply([Keep EXCEPT !.error = NULL,
                              !.isLoading = TRUE,
                              !.loadingMessage = "Re-styling your outfit...",
                              !.newTasks = <<[Task("reorder", history, currentIndex)
                                                EXCEPT !.order = reorderedItems]>>],
                 heap, tasks, styleScore, styleSuggestions)
    /\ UNCHANGED <<wardrobe, savedOutfits, isScoringStyle, isSuggesting>>

\* a loop that applies every garment to the model image instead of the image of
\* the step before
ReorderStepResolvedAtOnModel(k) ==
    \E v \in Variants :
        LET t == tasks[k]
            cs == t.cHist[t.cIdx + 1]
            i == Len(t.done) + 1
            currentImage == cs.modelImageUrl
            newImageUrl == generateGarmentTryOnImage(currentImage, t.order[i], v)
            done == Append(t.done, [item |-> t.order[i], img |-> newImageUrl])
            n == Len(t.order)
            lids == AllocN(FreeIds(heap), n)
            nh == [c \in 1..MaxObjs |->
                     IF \E j \in 1..n : lids[j] = c
                     THEN LET j == CHOOSE j \in 1..n : lids[j] = c
                          IN Layer(done[j].item, 0, done[j].img)
                     ELSE heap[c]]
            regeneratedLayers == <<cs.garmentHistory[1]>> \o lids
            u == setState(t.cHist, t.cIdx,
                          [cs EXCEPT !.garmentHistory = regeneratedLayers,
                                     !.currentGarmentIndex = Len(regeneratedLayers) - 1,
                                     !.currentPoseIndex = 0], nh)
        IN /\ mounted
           /\ t.kind = "reorder"
           /\ IF i < n
              THEN Apply([Keep EXCEPT !.newTasks = <<[t EXCEPT !.done = done]>>],
                         heap, Without(tasks, k), styleScore, styleSuggestions)
              ELSE /\ Cardinality(FreeIds(heap)) >= n
                   /\ IF Len(cs.activeAccessories) > 0
                      THEN Apply([updateAccessoryLayer(t.cHist, t.cIdx, cs.activeAccessories,
                                      newImageUrl, nh, "reorder")
                              EXCEPT !.u = u, !.newTasks = InScope(@, NoOutfit, t.order)],
                                 nh, Without(tasks, k), styleScore, styleSuggestions)
                      ELSE Apply([Keep EXCEPT !.u = u, !.isLoading = FALSE,
                                              !.loadingMessage = ""],
                                 nh, Without(tasks, k), styleScore, styleSuggestions)
           /\ UNCHANGED <<wardrobe, savedOutfits, isScoringStyle, isSuggesting>>

\* handleReorderGarments after urlToFile and generateGarmentTryOnImage of loop
\* step i resolved: the next step, or after the last one setState and
\* updateAccessoryLayer
ReorderStepResolvedAt(k) ==
    \E v \in Variants :
        LET t == tasks[k]
            cs == t.cHist[t.cIdx + 1]
            i == Len(t.done) + 1
            currentImage == IF i = 1 THEN cs.modelImageUrl ELSE t.done[i - 1].img
            newImageUrl == generateGarmentTryOnImage(currentImage, t.order[i], v)
            done == Append(t.done, [item |-> t.order[i], img |-> newImageUrl])
            n == Len(t.order)
            lids == AllocN(FreeIds(heap), n)
            nh == [c \in 1..MaxObjs |->
                     IF \E j \in 1..n : lids[j] = c
                     THEN LET j == CHOOSE j \in 1..n : lids[j] = c
                          IN Layer(done[j].item, 0, done[j].img)
                     ELSE heap[c]]
            regeneratedLayers == <<cs.garmentHistory[1]>> \o lids
            u == setState(t.cHist, t.cIdx,
                          [cs EXCEPT !.garmentHistory = regeneratedLayers,
                                     !.currentGarmentIndex = Len(regeneratedLayers) - 1,
                                     !.currentPoseIndex = 0], nh)
        IN /\ mounted
           /\ t.kind = "reorder"
           /\ IF i < n
              THEN Apply([Keep EXCEPT !.newTasks = <<[t EXCEPT !.done = done]>>],
                         heap, Without(tasks, k), styleScore, styleSuggestions)
              ELSE /\ Cardinality(FreeIds(heap)) >= n
                   /\ IF Len(cs.activeAccessories) > 0
                      THEN Apply([updateAccessoryLayer(t.cHist, t.cIdx, cs.activeAccessories,
                                      newImageUrl, nh, "reorder")
                              EXCEPT !.u = u, !.newTasks = InScope(@, NoOutfit, t.order)],
                                 nh, Without(tasks, k), styleScore, styleSuggestions)
                      ELSE Apply([Keep EXCEPT !.u = u, !.isLoading = FALSE,
                                              !.loadingMessage = ""],
                                 nh, Without(tasks, k), styleScore, styleSuggestions)
           /\ UNCHANGED <<wardrobe, savedOutfits, isScoringStyle, isSuggesting>>

ReorderStepResolved == \E k \in 1..Len(tasks) : ReorderStepResolvedAt(k)

\* handleReorderGarments after an await of its loop rejected
ReorderRejectedAt(k) ==
    /\ mounted
    /\ tasks[k].kind = "reorder"
    /\ Apply([Keep EXCEPT !.error = "Failed to reorder outfit. Reverting to previous order.",
                          !.isLoading = FALSE, !.loadingMessage = ""],
             heap, Without(tasks, k), styleScore, styleSuggestions)
    /\ UNCHANGED <<wardrobe, savedOutfits, isScoringStyle, isSuggesting>>

ReorderRejected == \E k \in 1..Len(tasks) : ReorderRejectedAt(k)

\* generateStyleSuggestions(currentItems, availableItems): the ids the remote
\* model may pick, any of the available items
generateStyleSuggestions(availableItems) == SUBSET Range(availableItems)

\* wardrobe.filter(item => !activeItemIds.includes(item.id)) of a render
availableItems(w, s, h) == SelectSeq(w, LAMBDA id : id \notin Range(activeItemIds(s, h)))

\* handleGetStyleSuggestions, up to its await; OutfitStack disables the button
\* while loading or suggesting and when nothing is worn
handleGetStyleSuggestions ==
    /\ mainShown
    /\ ~isLoading
    /\ ~isSuggesting
    /\ ~(Len(activeGarmentLayers(state)) <= 1 /\ Len(state.activeAccessories) = 0)
    /\ IF Len(activeItemIds(state, heap)) = 0
       THEN /\ Apply([Keep EXCEPT !.error = "Add at least one item to get suggestions.",
                                  !.newTasks = <<Task("errorTimer", history, currentIndex)>>],
                     heap, tasks, styleScore, styleSuggestions)
            /\ UNCHANGED isSuggesting
       ELSE IF Len(availableItems(wardrobe, state, heap)) = 0
       THEN /\ Apply([Keep EXCEPT !.error = NULL], heap, tasks, styleScore, <<>>)
            /\ UNCHANGED isSuggesting
       ELSE /\ Apply([Keep EXCEPT !.error = NULL,
                                  !.newTasks = <<[Task("suggest", history, currentIndex)
                                                    EXCEPT !.cWardrobe = wardrobe]>>],
                     heap, tasks, styleScore, <<>>)
            /\ isSuggesting' = TRUE
    /\ UNCHANGED <<wardrobe, savedOutfits, isScoringStyle>>

\* handleGetStyleSuggestions after await generateStyleSuggestions resolved
SuggestionsResolvedAt(k) ==
    LET t == tasks[k]
        cs == t.cHist[t.cIdx + 1]
    IN /\ mounted
       /\ t.kind = "suggest"
       /\ \E suggestedIds \in generateStyleSuggestions(availableItems(t.cWardrobe, cs, heap)) :
            Apply(Keep, heap, Without(tasks, k), styleScore,
                  SelectSeq(t.cWardrobe, LAMBDA id : id \in suggestedIds))
       /\ isSuggesting' = FALSE
       /\ UNCHANGED <<wardrobe, savedOutfits, isScoringStyle>>

SuggestionsResolved == \E k \in 1..Len(tasks) : SuggestionsResolvedAt(k)

\* handleGetStyleSuggestions after await generateStyleSuggestions rejected
SuggestionsRejectedAt(k) ==
    /\ mounted
    /\ tasks[k].kind = "suggest"
    /\ Apply([Keep EXCEPT !.error = "Failed to get style suggestions"],
             heap, Without(tasks, k), styleScore, styleSuggestions)
    /\ isSuggesting' = FALSE
    /\ UNCHANGED <<wardrobe, savedOutfits, isScoringStyle>>

SuggestionsRejected == \E k \in 1..Len(tasks) : SuggestionsRejectedAt(k)

\* StyleSuggestionsPanel.handleSuggestionClick(item), up to await urlToFile
handleSuggestionClick ==
    /\ mainShown
    /\ ~isLoading
    /\ \E k \in 1..Len(styleSuggestions) :
        Apply([Keep EXCEPT !.newTasks =
                 <<[Task("file", history, currentIndex) EXCEPT
                      !.item = styleSuggestions[k], !.base = baseGarmentImageUrl,
                      !.origin = "suggestion"]>>],
              heap, tasks, styleScore, styleSuggestions)
    /\ UNCHANGED <<wardrobe, savedOutfits, isScoringStyle, isSuggesting>>

\* the item ids in use anywhere
RECURSIVE OutfitItems(_)
OutfitItems(outfits) ==
    IF outfits = <<>> THEN {}
    ELSE Range(Head(outfits).wardrobe)
         \cup {Head(outfits).garmentHistory[k].item : k \in 1..Len(Head(outfits).garmentHistory)}
         \cup OutfitItems(Tail(outfits))
UsedItems ==
    Range(wardrobe) \cup {heap[i].item : i \in 1..MaxObjs}
    \cup {tasks[k].item : k \in 1..Len(tasks)}
    \cup OutfitItems(savedOutfits)
    \cup OutfitItems([k \in 1..Len(tasks) |-> tasks[k].outfit])

\* WardrobePanel.handleFileChange, up to reader.onload: the uploaded image becomes
\* a garment with the id `custom-${Date.now()}`, an id no item has
handleFileChange ==
    /\ mainShown
    /\ ~isLoading
    /\ CustomIds \ UsedItems # {}
    /\ Apply([Keep EXCEPT !.newTasks =
                <<[Task("file", history, currentIndex) EXCEPT
                     !.item = Min(CustomIds \ UsedItems), !.base = baseGarmentImageUrl,
                     !.origin = "upload"]>>],
             heap, tasks, styleScore, styleSuggestions)
    /\ UNCHANGED <<wardrobe, savedOutfits, isScoringStyle, isSuggesting>>

\* ------------------------------------------------------------ style score
\* What the remote model may answer a generateStyleScore request with: a text
\* that JSON.parse accepts or not, whose score is a number or not, whose
\* critique is a string or not.
ApiScores == (0 - MaxApiScore)..MaxApiScore
ApiReplies ==
    [json : {TRUE}, scoreIsNumber : {TRUE}, score : ApiScores, critiqueIsString : BOOLEAN]
    \cup [json : {TRUE}, scoreIsNumber : {FALSE}, score : {0}, critiqueIsString : BOOLEAN]
    \cup [json : {FALSE}, scoreIsNumber : {FALSE}, score : {0}, critiqueIsString : {FALSE}]

UnexpectedFormat == "The AI returned an unexpected format for the style score. Please try again."

\* generateStyleScore that returns the score of the reply as it came
generateStyleScoreUnclamped(items, reply) ==
    IF Len(items) = 0
    THEN [ok |-> TRUE, score |-> 0, called |-> FALSE, error |-> NULL]
    ELSE IF reply.json /\ reply.scoreIsNumber /\ reply.critiqueIsString
    THEN [ok |-> TRUE, score |-> reply.score, called |-> TRUE, error |-> NULL]
    ELSE [ok |-> FALSE, score |-> 0, called |-> TRUE, error |-> UnexpectedFormat]

\* generateStyleScore(items) when the remote model answers with reply; called
\* tells whether the request was made at all
generateStyleScore(items, reply) ==
    IF Len(items) = 0
    THEN [ok |-> TRUE, score |-> 0, called |-> FALSE, error |-> NULL]
    ELSE IF reply.json /\ reply.scoreIsNumber /\ reply.critiqueIsString
    THEN [ok |-> TRUE, score |-> Max({1, Min({10, reply.score})}), called |-> TRUE,
          error |-> NULL]
    ELSE [ok |-> FALSE, score |-> 0, called |-> TRUE, error |-> UnexpectedFormat]

\* handleGetStyleScore, up to its await; OutfitStack disables the button while
\* loading or scoring and when nothing is worn.  The score task carries allItems.
handleGetStyleScore ==
    /\ mainShown
    /\ ~isLoading
    /\ ~(isScoringStyle
         \/ (Len(activeGarmentLayers(state)) <= 1 /\ Len(state.activeAccessories) = 0))
    /\ LET allItems == activeItemIds(state, heap)
       IN IF Len(allItems) > 0
          THEN /\ Apply([Keep EXCEPT !.error = NULL,
                                     !.newTasks = <<[Task("score", history, currentIndex)
                                                       EXCEPT !.items = allItems]>>],
                        heap, tasks, NoScore, styleSuggestions)
               /\ isScoringStyle' = TRUE
          ELSE /\ Apply([Keep EXCEPT !.error = NULL], heap, tasks, NoScore, styleSuggestions)
               /\ isScoringStyle' = FALSE
    /\ UNCHANGED <<wardrobe, savedOutfits, isSuggesting>>

\* handleGetStyleScore after await generateStyleScore(allItems) returned or threw
\* on the reply; styleScore keeps, besides the score, the items it was computed from
ScoreResolvedAt(k) ==
    LET t == tasks[k]
    IN /\ mounted
       /\ t.kind = "score"
       /\ \E reply \in ApiReplies :
            LET result == generateStyleScore(t.items, reply)
            IN IF result.ok
               THEN Apply(Keep, heap, Without(tasks, k),
                          [score |-> result.score, items |-> t.items], styleSuggestions)
               ELSE Apply([Keep EXCEPT !.error = "Failed to get style score"],
                          heap, Without(tasks, k), styleScore, styleSuggestions)
       /\ isScoringStyle' = FALSE
       /\ UNCHANGED <<wardrobe, savedOutfits, isSuggesting>>

ScoreResolved == \E k \in 1..Len(tasks) : ScoreResolvedAt(k)

\* handleGetStyleScore after the request itself was rejected
ScoreRejectedAt(k) ==
    /\ mounted
    /\ tasks[k].kind = "score"
    /\ Apply([Keep EXCEPT !.error = "Failed to get style score"],
             heap, Without(tasks, k), styleScore, styleSuggestions)
    /\ isScoringStyle' = FALSE
    /\ UNCHANGED <<wardrobe, savedOutfits, isSuggesting>>

ScoreRejected == \E k \in 1..Len(tasks) : ScoreRejectedAt(k)

\* clearStyleScore from the X button of the score panel
clearStyleScore ==
    /\ mainShown
    /\ styleScore # NoScore
    /\ Apply(Keep, heap, tasks, NoScore, styleSuggestions)
    /\ UNCHANGED <<wardrobe, savedOutfits, isScoringStyle, isSuggesting>>


\* the caps of the model on the next state
Capped(maxTasks, maxHist) ==
    /\ Len(tasks') <= maxTasks
    /\ Len(history') <= maxHist
    /\ Len(savedOutfits') <= MaxSaved

Cap == Capped(MaxTasks, MaxHist)
CapRace ==
    /\ Capped(MaxRace, MaxHistRace)
    /\ \A k \in 1..Len(tasks') :
          tasks'[k].item \in AccessoryIds => tasks'[k].item \in {100 + a : a \in 1..MaxAccRace}
CapReorder == Capped(MaxTasks, MaxHistReorder)

Next ==
    \/ handleModelFinalized /\ Cap
    \/ handleStartOver /\ Cap
    \/ undo /\ Cap
    \/ redo /\ Cap
    \/ handleItemClick /\ Cap
    \/ FileResolved /\ Cap
    \/ FileRejected /\ Cap
    \/ GarmentResolved /\ Cap
    \/ GarmentRejected /\ Cap
    \/ AccessoryResolved /\ Cap
    \/ AccessoryRejected /\ Cap
    \/ handlePoseSelect /\ Cap
    \/ PoseResolved /\ Cap
    \/ PoseRejected /\ Cap
    \/ handleRemoveLastGarment /\ Cap
    \/ handleRemoveAccessory /\ Cap

Spec == Init /\ [][Next]_vars

\* Reordering the garments of an outfit: no undo, no pose change
NextReorder ==
    \/ handleModelFinalized /\ CapReorder
    \/ handleItemClick /\ CapReorder
    \/ FileResolved /\ CapReorder
    \/ GarmentResolved /\ CapReorder
    \/ AccessoryResolved /\ CapReorder
    \/ AccessoryRejected /\ CapReorder
    \/ handleReorderGarments /\ CapReorder
    \/ ReorderStepResolved /\ CapReorder
    \/ ReorderRejected /\ CapReorder

SpecReorder == Init /\ [][NextReorder]_vars

\* Saving and loading outfits
NextOutfits ==
    \/ handleModelFinalized /\ Cap
    \/ handleItemClick /\ Cap
    \/ FileResolved /\ Cap
    \/ GarmentResolved /\ Cap
    \/ AccessoryResolved /\ Cap
    \/ AccessoryRejected /\ Cap
    \/ handleRemoveLastGarment /\ Cap
    \/ handleSaveOutfit /\ Cap
    \/ handleLoadOutfit /\ Cap
    \/ LoadTimerFired /\ Cap
    \/ handleDeleteOutfit /\ Cap

SpecOutfits == Init /\ [][NextOutfits]_vars

\* Saving outfits one after another: no undo, no loading of a saved outfit
CapSave ==
    /\ Len(tasks') <= MaxTasks
    /\ Len(history') <= MaxHistSave
    /\ Len(savedOutfits') <= MaxSavedSave
NextSave ==
    \/ handleModelFinalized /\ CapSave
    \/ handleItemClick /\ CapSave
    \/ FileResolved /\ CapSave
    \/ GarmentResolved /\ CapSave
    \/ AccessoryResolved /\ CapSave
    \/ handleRemoveLastGarment /\ CapSave
    \/ handleSaveOutfit /\ CapSave
    \/ handleDeleteOutfit /\ CapSave

SpecSave == Init /\ [][NextSave]_vars

\* Style suggestions racing with the selection of items
NextRace ==
    \/ handleModelFinalized /\ CapRace
    \/ handleItemClick /\ CapRace
    \/ FileResolved /\ CapRace
    \/ GarmentResolved /\ CapRace
    \/ AccessoryResolved /\ CapRace
    \/ handleGetStyleSuggestions /\ CapRace
    \/ SuggestionsResolved /\ CapRace
    \/ handleSuggestionClick /\ CapRace

SpecRace == Init /\ [][NextRace]_vars

\* Asking for a score or for suggestions while items are selected
\* at most one image request at a time, beside the score request
CapScore ==
    /\ Capped(MaxRace, MaxHist)
    /\ Len(SelectSeq(tasks', LAMBDA t : t.kind # "score")) <= MaxTasks
NextScore ==
    \/ handleModelFinalized /\ CapScore
    \/ handleItemClick /\ CapScore
    \/ FileResolved /\ CapScore
    \/ GarmentResolved /\ CapScore
    \/ AccessoryResolved /\ CapScore
    \/ handleGetStyleScore /\ CapScore
    \/ ScoreResolved /\ CapScore
    \/ ScoreRejected /\ CapScore
    \/ clearStyleScore /\ CapScore

SpecScore == Init /\ [][NextScore]_vars

\* Every handler that shows the loading overlay, with the assumption that each
\* request is answered and each timer fires.  The caps bind what the user
\* starts; a continuation is never held back by them, and a timer of
\* handleLoadOutfit is started only where the layers it rebuilds have room.
CapLoading ==
    /\ Cap
    /\ \A k \in 1..Len(tasks') :
          tasks'[k].kind = "loadTimer"
          => Cardinality(FreeIds(heap')) >= Len(tasks'[k].outfit.garmentHistory)
NextLoading ==
    \/ handleModelFinalized /\ CapLoading
    \/ handleStartOver /\ CapLoading
    \/ handleItemClick /\ CapLoading
    \/ FileResolved
    \/ FileRejected
    \/ GarmentResolved
    \/ GarmentRejected
    \/ AccessoryResolved
    \/ AccessoryRejected
    \/ handlePoseSelect /\ CapLoading
    \/ PoseResolved
    \/ PoseRejected
    \/ handleRemoveAccessory /\ CapLoading
    \/ handleSaveOutfit /\ CapLoading
    \/ handleLoadOutfit /\ CapLoading
    \/ LoadTimerFired
    \/ handleReorderGarments /\ CapLoading
    \/ ReorderStepResolved
    \/ ReorderRejected

\* a pending request is answered, a pending timer fires; at most MaxTasks of
\* them are pending under this specification
Response ==
    \/ FileResolved \/ FileRejected
    \/ GarmentResolved \/ GarmentRejected
    \/ AccessoryResolved \/ AccessoryRejected
    \/ PoseResolved \/ PoseRejected
    \/ ReorderStepResolved \/ ReorderRejected
    \/ LoadTimerFired

\* WF_vars(Response) with ENABLED <<Response>>_vars written out: a response step
\* is possible exactly when a continuation is pending (a request may always be
\* rejected, CapLoading keeps room for a timer, this specification never unmounts)
Pending == tasks # <<>>
ResponseFairness == []<>(~Pending) \/ []<><<Response>>_vars

SpecLoading == Init /\ [][NextLoading]_vars /\ ResponseFairness

\* generateStyleScore on its own: called with any list of at most MaxScoreItems
\* items, answered with any reply
ItemLists(n) == UNION {[1..m -> GarmentIds \cup AccessoryIds] : m \in 0..n}
InitStyleScore ==
    /\ history = <<initialState>>
    /\ currentIndex = 0
    /\ heap = [i \in 1..MaxObjs |-> FreeLayer]
    /\ isLoading = FALSE
    /\ loadingMessage = ""
    /\ error = NULL
    /\ wardrobe = defaultWardrobe
    /\ savedOutfits = <<>>
    /\ styleScore = NoScore
    /\ isScoringStyle = TRUE
    /\ styleSuggestions = <<>>
    /\ isSuggesting = FALSE
    /\ \E items \in ItemLists(MaxScoreItems) :
          tasks = <<[Task("score", history, currentIndex) EXCEPT !.items = items]>>

NextStyleScore ==
    \/ ScoreResolved
    \/ ScoreRejected

SpecStyleScore == InitStyleScore /\ [][NextStyleScore]_vars

\* Removing garments, selecting them again and changing poses
CapReplay == Capped(MaxTasks, MaxHistReplay)
NextReplay ==
    \/ handleModelFinalized /\ CapReplay
    \/ handleItemClick /\ CapReplay
    \/ FileResolved /\ CapReplay
    \/ GarmentResolved /\ CapReplay
    \/ AccessoryResolved /\ CapReplay
    \/ handleRemoveLastGarment /\ CapReplay
    \/ handlePoseSelect /\ CapReplay
    \/ PoseResolved /\ CapReplay

SpecReplay == Init /\ [][NextReplay]_vars

\* ------------------------------------------------------------ properties
\* the layers of a state by content, as JSON.stringify shows them
LayersOf(s, h) == [k \in 1..Len(s.garmentHistory) |-> h[s.garmentHistory[k]]]

\* C1: where canUndo holds, undo followed by redo restores currentIndex and the
\* exposed state, and redo never moves to an older entry.  undo leaves the index
\* one lower with canRedo true (C3), so the round trip is this: redo, where
\* canRedo holds, steps to the next newer entry of an unchanged history, and
\* where it does not hold redo changes nothing.
C1_UndoRedoRoundTrip ==
    [][redo =>
        /\ history' = history
        /\ currentIndex' >= currentIndex
        /\ IF canRedo
           THEN currentIndex' = currentIndex + 1 /\ state' = history[currentIndex + 2]
           ELSE currentIndex' = currentIndex]_vars

\* C2: 0 <= currentIndex <= history.length - 1 in every reachable state, so the
\* exposed state is an element of history.
C2_IndexInRange ==
    /\ 0 <= currentIndex
    /\ currentIndex <= Len(history) - 1

\* C3: where currentIndex > 0, undo exposes the entry just before the current one
\* and leaves the history array as it is; where currentIndex = 0 it changes
\* neither history nor currentIndex.
C3_Undo ==
    [][undo =>
        /\ history' = history
        /\ \A i \in 1..Len(history) : LayersOf(history'[i], heap') = LayersOf(history[i], heap)
        /\ IF currentIndex > 0
           THEN /\ currentIndex' = currentIndex - 1
                /\ state' = history[currentIndex]
                /\ canRedo'
           ELSE currentIndex' = currentIndex]_vars

\* an entry is exposed that undo reached from the newest one
C3_Witness ==
    /\ mounted
    /\ Len(history) >= 3
    /\ currentIndex = Len(history) - 2

\* C4: handleModelFinalized and handleStartOver leave a history of the single
\* entry they were given, at index 0, whatever the history was before: neither
\* canUndo nor canRedo holds, and undo and redo stay on that entry.
C4_ResetReplacesHistory ==
    [][(handleModelFinalized \/ handleStartOver) =>
        /\ Len(history') = 1
        /\ currentIndex' = 0
        /\ ~canUndo' /\ ~canRedo'
        /\ undoIndex(currentIndex') = 0
        /\ redoIndex(currentIndex', Len(history')) = 0
        /\ handleStartOver => history' = <<initialState>>
        /\ handleModelFinalized =>
              /\ history'[1].modelImageUrl # NoImage
              /\ [history'[1] EXCEPT !.modelImageUrl = NoImage, !.garmentHistory = <<>>]
                    = initialState]_vars

\* handleStartOver has replaced a history of several entries: a continuation
\* that captured such a history is still pending
C4_Witness ==
    /\ history = <<initialState>>
    /\ currentIndex = 0
    /\ \E k \in 1..Len(tasks) : Len(tasks[k].cHist) >= 2

\* C5: at most one image-generation request (garment try-on, pose variation,
\* accessory try-on, a step of a reorder chain) awaits its response at any time.
C5_OneRequestInFlight ==
    Cardinality({k \in 1..Len(tasks) :
                    tasks[k].kind \in {"garment", "pose", "accessory", "reorder"}}) <= 1

\* C6: when generateGarmentTryOnImage, generatePoseVariation or
\* generateAccessoryTryOnImage rejects, handling the rejection leaves the undo
\* history, currentIndex and the current AppState, the poseImages of every layer
\* included, as they were while the request was in flight, and sets error to a
\* message.
C6_RejectionLeavesState ==
    [][(GarmentRejected \/ PoseRejected \/ AccessoryRejected) =>
        /\ history' = history
        /\ currentIndex' = currentIndex
        /\ \A i \in 1..Len(history) : LayersOf(history'[i], heap') = LayersOf(history[i], heap)
        /\ error' # NULL
        /\ ~isLoading']_vars

\* a pose request made from a state that undo could leave has been rejected
C6_Witness ==
    /\ error = "Failed to change pose"
    /\ mounted
    /\ currentIndex > 0
    /\ tasks = <<>>

\* C7: when a generation call inside handleReorderGarments fails (a step of the
\* garment chain, or the accessory call it awaits after the chain), garmentHistory,
\* currentGarmentIndex and currentPoseIndex of the current state are those of
\* before the reorder, no history entry has been added, and error is set.
C7_ReorderFailureReverts ==
    [][\A k \in 1..Len(tasks) :
        (\/ ReorderRejectedAt(k)
         \/ (tasks[k].kind = "accessory" /\ tasks[k].order # <<>> /\ AccessoryRejectedAt(k)))
        => LET before == tasks[k].cHist[tasks[k].cIdx + 1] IN
           /\ LayersOf(state', heap') = LayersOf(before, heap)
           /\ state'.currentGarmentIndex = before.currentGarmentIndex
           /\ state'.currentPoseIndex = before.currentPoseIndex
           /\ currentIndex' = tasks[k].cIdx
           /\ Len(history') = tasks[k].cIdx + 1
           /\ error' # NULL]_vars

\* the items of the layers a saved outfit stores
SavedItems(outfit) ==
    [j \in 1..Len(outfit.garmentHistory) |-> outfit.garmentHistory[j].item]

\* C8: when handleLoadOutfit of a saved outfit has completed (the timer callback
\* for an outfit without accessories, the accessory regeneration otherwise), the
\* layers of the current state carry the saved items in the saved order,
\* currentGarmentIndex is the top layer, currentPoseIndex is 0, activeAccessories
\* and wardrobe are the saved ones, whatever the state before the load.  (For the
\* accessory regeneration: where nothing else has touched the history that the
\* timer callback left.)
C8_SaveLoadRoundTrip ==
    [][\A k \in 1..Len(tasks) :
        (\/ (Len(tasks[k].outfit.activeAccessories) = 0 /\ LoadTimerFiredAt(k))
         \/ (/\ tasks[k].kind = "accessory" /\ tasks[k].origin = "load"
             /\ Len(history) = 1
             /\ AccessoryResolvedAt(k)))
        => LET outfit == tasks[k].outfit IN
           /\ LayerItems(state'.garmentHistory, heap') = SavedItems(outfit)
           /\ state'.currentGarmentIndex = Len(outfit.garmentHistory) - 1
           /\ state'.currentPoseIndex = 0
           /\ state'.activeAccessories = outfit.activeAccessories
           /\ wardrobe' = outfit.wardrobe]_vars

\* C9: when handleReorderGarments has completed successfully (its last chain step
\* without accessories, the accessory regeneration otherwise), the layers of the
\* current state are the base layer followed by the requested items in the
\* requested order, currentGarmentIndex is the top layer and currentPoseIndex
\* is 0.
C9_ReorderResult ==
    [][\A k \in 1..Len(tasks) :
        (\/ (/\ tasks[k].kind = "reorder"
             /\ Len(tasks[k].done) + 1 = Len(tasks[k].order)
             /\ Len(tasks[k].cHist[tasks[k].cIdx + 1].activeAccessories) = 0
             /\ ReorderStepResolvedAt(k))
         \/ (tasks[k].kind = "accessory" /\ tasks[k].order # <<>> /\ AccessoryResolvedAt(k)))
        => /\ LayerItems(state'.garmentHistory, heap') = <<0>> \o tasks[k].order
           /\ state'.currentGarmentIndex = Len(tasks[k].order)
           /\ state'.currentPoseIndex = 0]_vars

\* C10: no garment id occurs twice among the active garment layers
\* garmentHistory[1..currentGarmentIndex].
C10_NoDuplicateGarment ==
    mounted =>
        \A a, b \in 1..Len(activeGarmentIds(state, heap)) :
            activeGarmentIds(state, heap)[a] = activeGarmentIds(state, heap)[b] => a = b

C12_ScoreOfCurrentOutfit ==
    (mounted /\ styleScore # NoScore) => styleScore.items = activeItemIds(state, heap)

\* C13: once the start screen is shown (after handleStartOver as at the start),
\* it stays shown until a new model is finalized; the response of a request
\* issued before Start Over does not bring the main screen back.
C13_StaysOnStartScreen ==
    [][(/\ mounted /\ state.modelImageUrl = NoImage
        /\ mounted' /\ state'.modelImageUrl # NoImage)
       => handleModelFinalized]_vars

\* C14: when every request is answered and every timer fires, a loading overlay
\* always goes away again (isLoading false, loadingMessage empty), and isLoading
\* is false whenever no request or timer is pending.
C14_LoadingEnds ==
    /\ [](tasks = <<>> => (~isLoading /\ loadingMessage = ""))
    /\ (isLoading ~> (~isLoading /\ loadingMessage = ""))

\* the accessories of a loaded outfit are being regenerated
C14_Witness ==
    \E k \in 1..Len(tasks) : tasks[k].kind = "accessory" /\ tasks[k].origin = "load"

\* C15: for a non-empty list generateStyleScore returns a score within 1..10
\* whatever number the reply holds (the nearest of 1 and 10 when it is outside);
\* a reply that is not JSON with a numeric score and a string critique yields
\* the 'unexpected format' error; for the empty list the score is 0 and no
\* request is made.
C15_ScoreClamped ==
    /\ \A k \in 1..Len(tasks) :
          tasks[k].kind = "score"
          => \A reply \in ApiReplies :
                LET r == generateStyleScore(tasks[k].items, reply)
                    wellFormed == reply.json /\ reply.scoreIsNumber /\ reply.critiqueIsString
                IN IF Len(tasks[k].items) = 0
                   THEN r.ok /\ r.score = 0 /\ ~r.called
                   ELSE IF wellFormed
                   THEN /\ r.ok /\ r.called
                        /\ r.score \in 1..10
                        /\ (reply.score \in 1..10 => r.score = reply.score)
                        /\ (reply.score < 1 => r.score = 1)
                        /\ (reply.score > 10 => r.score = 10)
                   ELSE ~r.ok /\ r.error = UnexpectedFormat
    /\ styleScore # NoScore
       => IF Len(styleScore.items) = 0 THEN styleScore.score = 0
          ELSE styleScore.score \in 1..10

\* a score of 10 was returned for a non-empty list
C15_Witness ==
    /\ tasks = <<>>
    /\ styleScore # NoScore
    /\ Len(styleScore.items) = MaxScoreItems
    /\ styleScore.score = 10

\* C16: setState with a value that does not stringify like the state at
\* currentIndex i leaves the entries 0..i followed by the new value, with
\* currentIndex on the new last entry, so nothing is left to redo.  The history
\* and i are those of the render whose setState is called: the current ones for
\* handleRemoveLastGarment, the ones of the click for the continuation of
\* handleItemSelect.
C16_SetStatePushes ==
    [][/\ handleRemoveLastGarment
          => /\ Len(history') = currentIndex + 2
             /\ currentIndex' = Len(history') - 1
             /\ ~canRedo'
             /\ \A i \in 1..(currentIndex + 1) :
                   JsonState(history'[i], heap') = JsonState(history[i], heap)
             /\ JsonState(state', heap')
                   = JsonState([state EXCEPT
                                  !.currentGarmentIndex = state.currentGarmentIndex - 1,
                                  !.currentPoseIndex = 0,
                                  !.activeAccessories = <<>>,
                                  !.generatedAccessoryImageUrl = NoImage], heap)
       /\ \A k \in 1..Len(tasks) :
             (tasks[k].kind = "garment" /\ GarmentResolvedAt(k))
             => /\ Len(history') = tasks[k].cIdx + 2
                /\ currentIndex' = Len(history') - 1
                /\ ~canRedo'
                /\ \A i \in 1..(tasks[k].cIdx + 1) :
                      JsonState(history'[i], heap') = JsonState(tasks[k].cHist[i], heap)
                /\ LayerItems(activeGarmentLayers(state'), heap')
                      = Append(LayerItems(activeGarmentLayers(
                                   tasks[k].cHist[tasks[k].cIdx + 1]), heap),
                               tasks[k].item)]_vars

\* the last garment was removed from the outfit of an entry that had a newer one
\* after it
C16_Witness ==
    /\ mounted
    /\ Len(history) = 3
    /\ currentIndex = 2
    /\ state.currentGarmentIndex = 0
    /\ Len(state.garmentHistory) = 2

\* C17: a setState whose value stringifies like the state it starts from pushes
\* nothing.  handleLoadOutfit makes such a call after its reset when the outfit
\* has no accessories and the state of the click had no accessory image: the
\* history is then the one reset left, a single entry at index 0 with nothing to
\* undo or redo.
C17_EqualStateNotPushed ==
    [][\A k \in 1..Len(tasks) :
          (/\ tasks[k].kind = "loadTimer"
           /\ Len(tasks[k].outfit.activeAccessories) = 0
           /\ tasks[k].cHist[tasks[k].cIdx + 1].generatedAccessoryImageUrl = NoImage
           /\ LoadTimerFiredAt(k))
          => /\ Len(history') = 1
             /\ currentIndex' = 0
             /\ ~canUndo' /\ ~canRedo'
             /\ state'.modelImageUrl = tasks[k].outfit.modelImageUrl
             /\ state'.currentGarmentIndex = Len(tasks[k].outfit.garmentHistory) - 1
             /\ state'.activeAccessories = <<>>
             /\ state'.generatedAccessoryImageUrl = NoImage
             /\ LayerItems(state'.garmentHistory, heap')
                   = [j \in 1..Len(tasks[k].outfit.garmentHistory) |->
                         tasks[k].outfit.garmentHistory[j].item]]_vars

\* an outfit without accessories has been loaded and is the only entry
C17_Witness ==
    /\ tasks = <<>>
    /\ Len(history) = 1
    /\ currentIndex = 0
    /\ state.currentGarmentIndex >= 1
    /\ state.activeAccessories = <<>>

\* C18: when a handler has updated the history (setState in handlePoseSelect and
\* handleReorderGarments, reset in handleLoadOutfit) and then regenerates the
\* accessories, the setState that ends the regeneration is applied on top of the
\* first update: the entries up to the current one stay, and the new entry
\* differs from the current one in the accessory image only.
C18_SecondUpdateOnTopOfFirst ==
    [][\A k \in 1..Len(tasks) :
          (/\ tasks[k].kind = "accessory"
           /\ tasks[k].origin \in {"pose", "reorder", "load"}
           /\ AccessoryResolvedAt(k))
          => /\ Len(history') = currentIndex + 2
             /\ currentIndex' = currentIndex + 1
             /\ \A i \in 1..(currentIndex + 1) :
                   JsonState(history'[i], heap') = JsonState(history[i], heap)
             /\ JsonState([state' EXCEPT !.generatedAccessoryImageUrl = NoImage], heap')
                   = JsonState([state EXCEPT !.generatedAccessoryImageUrl = NoImage,
                                             !.activeAccessories = tasks[k].accs], heap)]_vars

\* C19: when the accessory regeneration that handlePoseSelect(n) started has
\* finished, the current state has currentPoseIndex = n.
C19_PoseKeptAfterAccessories ==
    [][\A k \in 1..Len(tasks) :
          (/\ tasks[k].kind = "accessory"
           /\ tasks[k].origin = "pose"
           /\ AccessoryResolvedAt(k))
          => state'.currentPoseIndex = tasks[k].pose]_vars

\* C20: isLoading is true in every state in which an image-generation request
\* (garment try-on, pose variation, accessory try-on, a step of a reorder chain)
\* awaits its response.
C20_LoadingWhileRequest ==
    (\E k \in 1..Len(tasks) : tasks[k].kind \in {"garment", "pose", "accessory", "reorder"})
    => isLoading

\* C21: where no request or timer is pending, the current state has an accessory
\* image exactly when it has active accessories.
C21_OverlayMatchesAccessories ==
    (mounted /\ tasks = <<>>)
    => (state.generatedAccessoryImageUrl # NoImage <=> state.activeAccessories # <<>>)

\* C22: handleRemoveLastGarment keeps the layers of garmentHistory and steps
\* currentGarmentIndex back; selecting next the garment of the layer above
\* currentGarmentIndex issues no request and makes that layer, with the pose
\* images it holds, the current one at pose 0; a different garment, once
\* generated, replaces every layer above currentGarmentIndex.
C22_ReplayWithoutRegeneration ==
    [][/\ handleRemoveLastGarment
          => /\ LayersOf(state', heap') = LayersOf(state, heap)
             /\ state'.currentGarmentIndex = state.currentGarmentIndex - 1
       /\ \A k \in 1..Len(tasks) :
             LET t == tasks[k]
                 next == state.currentGarmentIndex + 1
             IN (/\ t.kind \in {"file", "garment"}
                 /\ ItemType(t.item) = "garment"
                 /\ t.base # NoImage
                 /\ t.cIdx = currentIndex
                 /\ t.cHist = Slice(history, currentIndex + 1))
                => /\ (/\ FileResolvedAt(k)
                       /\ HasLayer(state, next)
                       /\ heap[state.garmentHistory[next + 1]].item = t.item)
                      => /\ Len(tasks') = Len(tasks) - 1
                         /\ isLoading' = isLoading
                         /\ LayersOf(state', heap') = LayersOf(state, heap)
                         /\ state'.currentGarmentIndex = next
                         /\ state'.currentPoseIndex = 0
                   /\ (/\ FileResolvedAt(k)
                       /\ ~(/\ HasLayer(state, next)
                            /\ heap[state.garmentHistory[next + 1]].item = t.item))
                      => /\ Len(tasks') = Len(tasks)
                         /\ tasks'[Len(tasks')].kind = "garment"
                         /\ history' = history
                   /\ GarmentResolvedAt(k)
                      => /\ Len(state'.garmentHistory) = next + 1
                         /\ state'.currentGarmentIndex = next
                         /\ SubSeq(LayersOf(state', heap'), 1, next)
                               = SubSeq(LayersOf(state, heap), 1, next)
                         /\ heap'[state'.garmentHistory[next + 1]].item = t.item]_vars

\* a removed garment that holds two pose images is the current layer again
C22_Witness ==
    /\ mounted
    /\ tasks = <<>>
    /\ currentIndex >= 1
    /\ history[currentIndex].currentGarmentIndex = 0
    /\ Len(history[currentIndex].garmentHistory) = 2
    /\ state.currentGarmentIndex = 1
    /\ state.currentPoseIndex = 0
    /\ Len(heap[state.garmentHistory[2]].poseImages) = 2

\* C23: a step of handleRemoveLastGarment, and a step of handleItemSelect that
\* makes a new or a stored layer the current one, ends in a state without
\* active accessories and without accessory image; handleRemoveLastGarment steps
\* currentGarmentIndex back by one and never below 0.
C23_LayerChangeClearsAccessories ==
    [][/\ handleRemoveLastGarment
          => /\ state'.currentGarmentIndex = state.currentGarmentIndex - 1
             /\ state'.currentGarmentIndex >= 0
             /\ state'.activeAccessories = <<>>
             /\ state'.generatedAccessoryImageUrl = NoImage
       /\ \A k \in 1..Len(tasks) :
             (\/ (tasks[k].kind = "garment" /\ GarmentResolvedAt(k))
              \/ (/\ tasks[k].kind = "file" /\ ItemType(tasks[k].item) = "garment"
                  /\ FileResolvedAt(k) /\ currentIndex' # currentIndex))
             => /\ state'.currentGarmentIndex
                      = tasks[k].cHist[tasks[k].cIdx + 1].currentGarmentIndex + 1
                /\ state'.activeAccessories = <<>>
                /\ state'.generatedAccessoryImageUrl = NoImage
       /\ mounted' => state'.currentGarmentIndex >= 0]_vars

\* the last garment was removed from under an active accessory
C23_Witness ==
    /\ mounted
    /\ currentIndex >= 1
    /\ history[currentIndex].activeAccessories # <<>>
    /\ history[currentIndex].currentGarmentIndex = 1
    /\ state.currentGarmentIndex = 0
    /\ state.activeAccessories = <<>>

\* C24: handlePoseSelect acts only when nothing is loading and for a pose other
\* than the current one; it starts a pose generation only for a pose the current
\* layer holds no image of, and otherwise selects the stored pose without a pose
\* request and without touching a layer; the generated image is written into the
\* layer the request was made for, which is the current layer afterwards, and
\* every other layer of every history entry keeps its pose images.
C24_PoseImagesCachedPerLayer ==
    [][/\ handlePoseSelect
          => LET cur == heap[state.garmentHistory[state.currentGarmentIndex + 1]]
                 poseTasks(tsks) == {j \in 1..Len(tsks) : tsks[j].kind = "pose"}
             IN /\ ~isLoading
                /\ IF Cardinality(poseTasks(tasks')) > Cardinality(poseTasks(tasks))
                   THEN /\ tasks'[Len(tasks')].kind = "pose"
                        /\ tasks'[Len(tasks')].pose # state.currentPoseIndex
                        /\ PoseImage(cur, tasks'[Len(tasks')].pose) = NoImage
                        /\ state' = state
                        /\ LayersOf(state', heap') = LayersOf(state, heap)
                   ELSE /\ state'.currentPoseIndex # state.currentPoseIndex
                        /\ PoseImage(cur, state'.currentPoseIndex) # NoImage
                        /\ LayersOf(state', heap') = LayersOf(state, heap)
       /\ \A k \in 1..Len(tasks) :
             (tasks[k].kind = "pose" /\ PoseResolvedAt(k))
             => LET t == tasks[k]
                    cs == t.cHist[t.cIdx + 1]
                    lid == cs.garmentHistory[cs.currentGarmentIndex + 1]
                    now == heap'[state'.garmentHistory[state'.currentGarmentIndex + 1]]
                IN /\ now.item = heap[lid].item
                   /\ PoseImage(now, t.pose) # NoImage
                   /\ \A p \in Poses \ {t.pose} : PoseImage(now, p) = PoseImage(heap[lid], p)
                   /\ \A i \in 1..Len(t.cHist) :
                         \A j \in 1..Len(t.cHist[i].garmentHistory) :
                            t.cHist[i].garmentHistory[j] # lid
                            => heap'[history'[i].garmentHistory[j]]
                                 = heap[t.cHist[i].garmentHistory[j]]]_vars

\* a generated pose was selected on the second layer and then the stored first
\* pose was selected again
C24_Witness ==
    /\ mounted
    /\ tasks = <<>>
    /\ currentIndex >= 1
    /\ state.currentGarmentIndex = 1
    /\ state.currentPoseIndex = 0
    /\ history[currentIndex].currentPoseIndex = 1
    /\ history[currentIndex].currentGarmentIndex = 1
    /\ Len(heap[state.garmentHistory[2]].poseImages) = 2
    /\ Len(heap[state.garmentHistory[1]].poseImages) = 1

\* C25: generating a pose variation leaves every AppState already recorded in
\* the history as it was: the entries an undo can return to hold, layer by
\* layer, the pose images they held before the image was generated.
C25_HistoryEntriesImmutable ==
    [][\A k \in 1..Len(tasks) :
          (tasks[k].kind = "pose" /\ PoseResolvedAt(k))
          => \A i \in 1..Len(tasks[k].cHist) :
                LayersOf(history'[i], heap') = LayersOf(tasks[k].cHist[i], heap)]_vars

\* C26: with a finalized model, the current garment layer holds an image for the
\* selected pose, so the displayed image is never the layer's first pose image
\* standing in for a missing one.
C26_CurrentLayerHoldsSelectedPose ==
    mainShown
    => /\ HasLayer(state, state.currentGarmentIndex)
       /\ PoseImage(heap[state.garmentHistory[state.currentGarmentIndex + 1]],
                    state.currentPoseIndex) # NoImage

\* C27: an accessory image is generated from the current layer's image of the
\* selected pose: whenever generatedAccessoryImageUrl is set and no request is
\* under way, the image it was generated from is
\* poseImages[POSE_INSTRUCTIONS[currentPoseIndex]] of the current garment layer.
C27_OverlayOnSelectedPose ==
    (mounted /\ tasks = <<>> /\ ~isLoading /\ state.generatedAccessoryImageUrl # NoImage)
    => /\ HasLayer(state, state.currentGarmentIndex)
       /\ SubSeq(state.generatedAccessoryImageUrl, 1,
                 Len(state.generatedAccessoryImageUrl) - 1)
            = PoseImage(heap[state.garmentHistory[state.currentGarmentIndex + 1]],
                        state.currentPoseIndex)

\* C28: handleReorderGarments runs its try-on requests as a chain: starting it
\* writes no state; the response of step i, when steps remain, writes no state
\* and leaves one request for position i + 1 of the new order; the image of step
\* i is generated from the image of step i - 1, the first from the model image;
\* only the last response writes the state, whose layers are the new order with
\* the images of the chain.
C28_ReorderIsSequentialChain ==
    [][/\ handleReorderGarments
          => /\ history' = history /\ currentIndex' = currentIndex
             /\ tasks'[Len(tasks')].kind = "reorder"
             /\ tasks'[Len(tasks')].done = <<>>
       /\ \A k \in 1..Len(tasks) :
             (tasks[k].kind = "reorder" /\ ReorderStepResolvedAt(k))
             => LET t == tasks[k]
                    cs == t.cHist[t.cIdx + 1]
                    i == Len(t.done) + 1
                    n == Len(t.order)
                    basedOn(img) == SubSeq(img, 1, Len(img) - 1)
                    madeFor(img) == img[Len(img)]
                    layerImage(j) == heap'[state'.garmentHistory[j + 1]].poseImages[1].img
                IN IF i < n
                   THEN LET nt == tasks'[Len(tasks')]
                        IN /\ history' = history /\ currentIndex' = currentIndex
                           /\ Cardinality({j \in 1..Len(tasks') : tasks'[j].kind = "reorder"})
                                = Cardinality({j \in 1..Len(tasks) : tasks[j].kind = "reorder"})
                           /\ nt.kind = "reorder" /\ nt.order = t.order
                           /\ SubSeq(nt.done, 1, i - 1) = t.done /\ Len(nt.done) = i
                           /\ nt.done[i].item = t.order[i]
                           /\ madeFor(nt.done[i].img).k = "garment"
                           /\ madeFor(nt.done[i].img).n = t.order[i]
                           /\ basedOn(nt.done[i].img)
                                = IF i = 1 THEN cs.modelImageUrl ELSE t.done[i - 1].img
                   ELSE /\ currentIndex' = t.cIdx + 1
                        /\ LayerItems(state'.garmentHistory, heap') = <<0>> \o t.order
                        /\ state'.currentGarmentIndex = n
                        /\ \A j \in 1..n :
                              /\ madeFor(layerImage(j)).n = t.order[j]
                              /\ basedOn(layerImage(j))
                                   = IF j = 1 THEN cs.modelImageUrl ELSE layerImage(j - 1)
                              /\ j < n => layerImage(j) = t.done[j].img]_vars

\* two garments were reordered: the state written after the second response
\* holds them in the opposite order of the entry before
C28_Witness ==
    /\ mounted
    /\ tasks = <<>>
    /\ currentIndex >= 1
    /\ Len(state.garmentHistory) = 3
    /\ Len(history[currentIndex].garmentHistory) = 3
    /\ state.currentGarmentIndex = 2
    /\ LayerItems(state.garmentHistory, heap)[2]
         = LayerItems(history[currentIndex].garmentHistory, heap)[3]
    /\ LayerItems(state.garmentHistory, heap)[3]
         = LayerItems(history[currentIndex].garmentHistory, heap)[2]

\* C29: a handleSaveOutfit step with a model and a garment above the base layer
\* or an active accessory puts exactly one new outfit in front of savedOutfits,
\* holding the layers up to currentGarmentIndex and the active accessories, and
\* leaves history, currentIndex and error as they were; any other
\* handleSaveOutfit step leaves savedOutfits as it was and sets the error
\* message; savedOutfits grows in no other way.
C29_SaveOutfit ==
    [][/\ handleSaveOutfit
          => IF /\ state.modelImageUrl # NoImage
                /\ (state.currentGarmentIndex > 0 \/ Len(state.activeAccessories) > 0)
             THEN LET saved == Head(savedOutfits')
                  IN /\ Len(savedOutfits') = Len(savedOutfits) + 1
                     /\ Tail(savedOutfits') = savedOutfits
                     /\ \A k \in 1..Len(savedOutfits) : savedOutfits[k].id # saved.id
                     /\ Len(saved.garmentHistory) = state.currentGarmentIndex + 1
                     /\ \A k \in 1..Len(saved.garmentHistory) :
                           /\ saved.garmentHistory[k].item = heap[state.garmentHistory[k]].item
                           /\ saved.garmentHistory[k].imageUrl
                                = FirstPoseImage(heap[state.garmentHistory[k]])
                     /\ saved.activeAccessories = state.activeAccessories
                     /\ saved.modelImageUrl = state.modelImageUrl
                     /\ history' = history /\ currentIndex' = currentIndex
                     /\ LayersOf(state', heap') = LayersOf(state, heap)
                     /\ error' = error
             ELSE /\ savedOutfits' = savedOutfits
                  /\ error' = "Add at least one item to save an outfit."
       /\ Len(savedOutfits') > Len(savedOutfits)
          => /\ state.modelImageUrl # NoImage
             /\ (state.currentGarmentIndex > 0 \/ Len(state.activeAccessories) > 0)
             /\ Len(savedOutfits') = Len(savedOutfits) + 1]_vars

\* a second outfit was saved with an accessory on the base layer while a removed
\* garment layer is still stored above it
C29_Witness ==
    /\ mounted
    /\ Len(savedOutfits) = 2
    /\ Len(state.garmentHistory) = 2
    /\ state.currentGarmentIndex = 0
    /\ Len(Head(savedOutfits).garmentHistory) = 1
    /\ Head(savedOutfits).activeAccessories = state.activeAccessories
    /\ state.activeAccessories # <<>>
====
